---- MODULE Spec2Model ----
(***************************************************************************)
(* Model of meilisearch-http/src/routes/search.rs: the handler             *)
(* search_with_url_query, which turns the query parameters of a search     *)
(* request into calls on the search builder, and prepare_facet_list, which *)
(* resolves the facetsDistribution parameter.                              *)
(*                                                                         *)
(* A string is a sequence of one-character strings, so that split(',')     *)
(* and split(':') and the parse of a crop length are computed as the code  *)
(* computes them.  Option<T> is a sequence of at most one element:         *)
(* None == <<>>, Some(v) == <<v>>.                                         *)
(*                                                                         *)
(* Not modelled: q, offset, limit, filters and matches, which the handler  *)
(* hands to the search builder unchanged, and the failures of the storage  *)
(* layer (open_index, main_read_txn, schema, attributes_for_faceting).     *)
(***************************************************************************)
EXTENDS Integers, Sequences, FiniteSets

VARIABLES
    params,                \* the SearchQuery of the request
    schema,                \* the Schema read from the index
    facet_attrs,           \* what index.main.attributes_for_faceting returns
    pc,                    \* position of the handler
    restricted_attributes, \* the local of that name
    final_attributes,      \* the crop loop's HashMap<String, usize>
    it,                    \* number of attributes_to_crop tokens consumed
    search_builder,        \* what has been set on the search builder
    warnings,              \* the lines written by warn!, in order
    result,                \* what the handler returned
    ret                    \* what a direct call of prepare_facet_list returned

vars == <<params, schema, facet_attrs, pc, restricted_attributes,
          final_attributes, it, search_builder, warnings, result, ret>>

----------------------------------------------------------------------------
(* Bounds of the model.                                                    *)

\* longest attributesToCrop string
MaxCropLen == 5
\* longest attributesToRetrieve / attributesToHighlight string
MaxListLen == 3
\* longest facetsDistribution array of a direct call of prepare_facet_list
MaxFacets == 3
\* longest facet_attrs of a direct call of prepare_facet_list
MaxFacetAttrs == 2
\* longest facetsDistribution array of a request
MaxRequestFacets == 1

----------------------------------------------------------------------------
(* Strings and options.                                                    *)

None == <<>>
Some(v) == <<v>>
IsSome(o) == Len(o) = 1
Unwrap(o) == o[1]

\* the characters a modelled string is made of
Chars == {"t", ",", ":", "*", "5"}

RECURSIVE StringsOfLen(_)
StringsOfLen(n) ==
    IF n = 0 THEN {<<>>}
    ELSE {Append(s, c) : s \in StringsOfLen(n - 1), c \in Chars}

StringsUpTo(n) == UNION {StringsOfLen(k) : k \in 0..n}

OptionOf(S) == {None} \cup {Some(v) : v \in S}

WILDCARD == <<"*">>

\* str::split(d): the segments between the occurrences of d; never empty
FirstIndex(s, d) ==
    IF \E i \in 1..Len(s) : s[i] = d
    THEN CHOOSE i \in 1..Len(s) : s[i] = d /\ \A j \in 1..(i - 1) : s[j] # d
    ELSE 0

RECURSIVE Split(_, _)
Split(s, d) ==
    LET i == FirstIndex(s, d)
    IN IF i = 0 THEN <<s>>
       ELSE <<SubSeq(s, 1, i - 1)>> \o Split(SubSeq(s, i + 1, Len(s)), d)

\* the elements of a sequence, as a set (collect::<HashSet<_>>())
Range(seq) == {seq[i] : i \in 1..Len(seq)}

\* every order in which a HashSet may be iterated
Orderings(S) ==
    {o \in [1..Cardinality(S) -> S] : \A i, j \in 1..Cardinality(S) : o[i] = o[j] => i = j}

IsDigit(c) == c \in {"0", "1", "2", "3", "4", "5", "6", "7", "8", "9"}

DigitValue(c) ==
    CASE c = "0" -> 0 [] c = "1" -> 1 [] c = "2" -> 2 [] c = "3" -> 3
      [] c = "4" -> 4 [] c = "5" -> 5 [] c = "6" -> 6 [] c = "7" -> 7
      [] c = "8" -> 8 [] c = "9" -> 9

RECURSIVE DecimalValue(_)
DecimalValue(s) ==
    IF Len(s) = 0 THEN 0
    ELSE 10 * DecimalValue(SubSeq(s, 1, Len(s) - 1)) + DigitValue(s[Len(s)])

\* str::parse::<usize>().ok(): the modelled strings hold no sign and are too
\* short to overflow a usize
ParseUsize(s) ==
    IF Len(s) > 0 /\ \A i \in 1..Len(s) : IsDigit(s[i])
    THEN Some(DecimalValue(s))
    ELSE None

----------------------------------------------------------------------------
(* The schema: its fields are named t (id 1) and b (id 2).  No character   *)
(* of a modelled string is "b", so a request names t only; b is reached    *)
(* through the wildcards.                                                  *)

T == <<"t">>
B == <<"b">>
\* the empty string
EMPTY == <<>>

\* Schema::id
SchemaId(sch, name) ==
    IF name \in DOMAIN sch.ids THEN Some(sch.ids[name]) ELSE None

\* Schema::name
SchemaName(sch, id) ==
    IF \E n \in DOMAIN sch.ids : sch.ids[n] = id
    THEN Some(CHOOSE n \in DOMAIN sch.ids : sch.ids[n] = id)
    ELSE None

\* Schema::displayed_name
DisplayedName(sch) == sch.displayed

----------------------------------------------------------------------------
(* Results and errors.                                                     *)

Pending == [kind |-> "Pending", val |-> <<>>, arg |-> <<>>]
Ok(v) == [kind |-> "Ok", val |-> v, arg |-> <<>>]
Err(kind, arg) == [kind |-> kind, val |-> <<>>, arg |-> arg]

\* FacetCountError::AttributeNotSet(name)
AttributeNotSet(name) == Err("AttributeNotSet", name)
\* FacetCountError::unexpected_token(bad_val, expected)
UnexpectedToken(expected) == Err("UnexpectedToken", expected)
\* FacetCountError::NoFacetSet
NoFacetSet == Err("NoFacetSet", <<>>)

----------------------------------------------------------------------------
(* JSON (serde_json::Value) and prepare_facet_list.                        *)

JsonString(s) == [type |-> "String", s |-> s, vals |-> <<>>]
JsonNumber == [type |-> "Number", s |-> <<>>, vals |-> <<>>]
JsonObject == [type |-> "Object", s |-> <<>>, vals |-> <<>>]
JsonArray(vals) == [type |-> "Array", s |-> <<>>, vals |-> vals]

\* a facetsDistribution text: one serde_json cannot parse, or the text of a value
MalformedText == [json |-> FALSE, value |-> JsonObject]
TextOf(value) == [json |-> TRUE, value |-> value]

\* serde_json::from_str(facets)?
SerdeFromStr(text) ==
    IF text.json THEN Ok(text.value) ELSE Err("Json", <<>>)

\* facet_attrs.contains(&id)
Contains(seq, x) == \E i \in 1..Len(seq) : seq[i] = x

\* facet_attrs.iter().filter_map(|&id| schema.name(id).map(|n| (id, n))).collect()
RECURSIVE WildcardAttrs(_, _)
WildcardAttrs(sch, attrs) ==
    IF Len(attrs) = 0 THEN <<>>
    ELSE LET id == Head(attrs)
             n == SchemaName(sch, id)
         IN (IF IsSome(n) THEN <<<<id, Unwrap(n)>>>> ELSE <<>>)
            \o WildcardAttrs(sch, Tail(attrs))

\* FacetLoop, had the code pushed a field once only
RECURSIVE FacetLoop_Dedup(_, _, _, _)
FacetLoop_Dedup(vals, sch, attrs, field_ids) ==
    IF Len(vals) = 0 THEN Ok(field_ids)
    ELSE LET facet == Head(vals)
         IN IF facet.type = "String"
            THEN LET id == SchemaId(sch, facet.s)
                 IN IF IsSome(id)
                    THEN IF ~Contains(attrs, Unwrap(id))
                         THEN AttributeNotSet(facet.s)
                         ELSE FacetLoop_Dedup(Tail(vals), sch, attrs,
                                  IF Contains(field_ids, <<Unwrap(id), facet.s>>)
                                  THEN field_ids
                                  ELSE Append(field_ids, <<Unwrap(id), facet.s>>))
                    ELSE FacetLoop_Dedup(Tail(vals), sch, attrs, field_ids)
            ELSE UnexpectedToken(<<"String">>)

\* FacetLoop, had the code refused the names the schema does not know
RECURSIVE FacetLoop_UnknownFails(_, _, _, _)
FacetLoop_UnknownFails(vals, sch, attrs, field_ids) ==
    IF Len(vals) = 0 THEN Ok(field_ids)
    ELSE LET facet == Head(vals)
         IN IF facet.type = "String"
            THEN LET id == SchemaId(sch, facet.s)
                 IN IF IsSome(id) /\ Contains(attrs, Unwrap(id))
                    THEN FacetLoop_UnknownFails(Tail(vals), sch, attrs,
                             Append(field_ids, <<Unwrap(id), facet.s>>))
                    ELSE AttributeNotSet(facet.s)
            ELSE UnexpectedToken(<<"String">>)

\* the loop `for facet in vals` of prepare_facet_list, from field_ids on
RECURSIVE FacetLoop(_, _, _, _)
FacetLoop(vals, sch, attrs, field_ids) ==
    IF Len(vals) = 0 THEN Ok(field_ids)
    ELSE LET facet == Head(vals)
         IN IF facet.type = "String"
            THEN LET id == SchemaId(sch, facet.s)
                 IN IF IsSome(id)
                    THEN IF ~Contains(attrs, Unwrap(id))
                         THEN AttributeNotSet(facet.s)
                         ELSE FacetLoop(Tail(vals), sch, attrs,
                                        Append(field_ids, <<Unwrap(id), facet.s>>))
                    ELSE FacetLoop(Tail(vals), sch, attrs, field_ids)
            ELSE UnexpectedToken(<<"String">>)

\* HasWildcard, had the code looked for the wildcard in the first place only
HasWildcard_FirstOnly(vals) == Len(vals) >= 1 /\ vals[1] = JsonString(WILDCARD)

\* vals.iter().any(|f| f == &wildcard)
HasWildcard(vals) == \E i \in 1..Len(vals) : vals[i] = JsonString(WILDCARD)

prepare_facet_list(facets, sch, attrs) ==
    LET json_array == SerdeFromStr(facets)
    IN IF json_array.kind # "Ok" THEN json_array
       ELSE IF json_array.val.type = "Array"
            THEN IF HasWildcard(json_array.val.vals)
                 THEN Ok(WildcardAttrs(sch, attrs))
                 ELSE FacetLoop(json_array.val.vals, sch, attrs, <<>>)
            ELSE UnexpectedToken(<<"[String]">>)

\* FacetFilter::from_str(facet_filters, &schema, &attrs): the expression
\* names one attribute, which must be in the schema and facet-enabled
FacetFilterFromStr(text, sch, attrs) ==
    LET id == SchemaId(sch, text)
    IN IF IsSome(id) /\ Contains(attrs, Unwrap(id))
       THEN Ok(Unwrap(id))
       ELSE Err("FacetFilter", text)

----------------------------------------------------------------------------
(* The handler search_with_url_query.                                      *)

\* a line of warn!: the parameter its text names, and the attribute
Warn(text, attr) == [text |-> text, attr |-> attr]

WarnAll(text, attrs) == [i \in 1..Len(attrs) |-> Warn(text, attrs[i])]

NotIn(S, seq) == SelectSeq(seq, LAMBDA a : a \notin S)

\* HashMap::insert
Insert(map, key, value) ==
    [k \in (DOMAIN map) \cup {key} |-> IF k = key THEN value ELSE map[k]]

\* InsertAll, had the wildcard kept the lengths already set
InsertAll_KeepExisting(map, keys, value) ==
    [k \in (DOMAIN map) \cup keys |-> IF k \in DOMAIN map THEN map[k] ELSE value]

\* the inserts of `for attr in &restricted_attributes`
InsertAll(map, keys, value) ==
    [k \in (DOMAIN map) \cup keys |-> IF k \in keys THEN value ELSE map[k]]

EmptyMap == [k \in {} |-> 0]

\* params.crop_length.unwrap_or(200)
DefaultCropLength == 200
default_length == IF IsSome(params.crop_length) THEN Unwrap(params.crop_length)
                  ELSE DefaultCropLength

\* attribute.split(':') and its first next()
CropAttr(token) ==
    LET attribute == Split(token, ":")
    IN IF Len(attribute) >= 1 THEN Some(attribute[1]) ELSE None

\* CropLength, had the code parsed all that follows the first colon
CropLength_Rest(token, default) ==
    LET i == FirstIndex(token, ":")
        parsed == IF i > 0 THEN ParseUsize(SubSeq(token, i + 1, Len(token))) ELSE None
    IN IF IsSome(parsed) THEN Unwrap(parsed) ELSE default

\* attribute.next().and_then(|s| s.parse().ok()).unwrap_or(default_length)
CropLength(token, default) ==
    LET attribute == Split(token, ":")
        parsed == IF Len(attribute) >= 2 THEN ParseUsize(attribute[2]) ELSE None
    IN IF IsSome(parsed) THEN Unwrap(parsed) ELSE default

available_attributes == DisplayedName(schema)

\* RetrieveHasWildcard, had the code taken the wildcard only when alone
RetrieveHasWildcard_Alone(attributes_to_retrieve) ==
    attributes_to_retrieve = {WILDCARD}

\* attributes_to_retrieve.contains("*")
RetrieveHasWildcard(attributes_to_retrieve) ==
    WILDCARD \in attributes_to_retrieve

\* lines 65-87
ResolveAttributes ==
    /\ pc = "attributes"
    /\ pc' = "facet_filters"
    /\ IF IsSome(params.attributes_to_retrieve)
       THEN LET attributes_to_retrieve ==
                    Range(Split(Unwrap(params.attributes_to_retrieve), ","))
            IN IF RetrieveHasWildcard(attributes_to_retrieve)
               THEN /\ restricted_attributes' = available_attributes
                    /\ UNCHANGED <<search_builder, warnings>>
               ELSE \E order \in Orderings(attributes_to_retrieve) :
                    /\ restricted_attributes' =
                           attributes_to_retrieve \cap available_attributes
                    /\ search_builder' =
                           [search_builder EXCEPT !.retrievable =
                               @ \cup (attributes_to_retrieve \cap available_attributes)]
                    /\ warnings' = warnings \o
                           WarnAll("attributesToCrop", NotIn(available_attributes, order))
       ELSE /\ restricted_attributes' = available_attributes
            /\ UNCHANGED <<search_builder, warnings>>
    /\ UNCHANGED <<params, schema, facet_attrs, final_attributes, it, result, ret>>

\* FacetFilters, had the code refused facetFilters on an index without facets
FacetFilters_RequireConfig ==
    /\ pc = "facet_filters"
    /\ IF IsSome(params.facet_filters)
       THEN IF IsSome(facet_attrs)
            THEN LET parsed == FacetFilterFromStr(Unwrap(params.facet_filters), schema,
                                                  Unwrap(facet_attrs))
                 IN IF parsed.kind = "Ok"
                    THEN /\ search_builder' =
                                [search_builder EXCEPT !.facet_filters = Some(parsed.val)]
                         /\ pc' = "facets_distribution"
                         /\ UNCHANGED result
                    ELSE /\ result' = parsed
                         /\ pc' = "done"
                         /\ UNCHANGED search_builder
            ELSE /\ result' = NoFacetSet
                 /\ pc' = "done"
                 /\ UNCHANGED search_builder
       ELSE /\ pc' = "facets_distribution"
            /\ UNCHANGED <<search_builder, result>>
    /\ UNCHANGED <<params, schema, facet_attrs, restricted_attributes,
                   final_attributes, it, warnings, ret>>

\* FacetFilters, had the code kept the error and gone on instead of returning
FacetFilters_Continue ==
    /\ pc = "facet_filters"
    /\ pc' = "facets_distribution"
    /\ IF IsSome(params.facet_filters) /\ IsSome(facet_attrs)
       THEN LET parsed == FacetFilterFromStr(Unwrap(params.facet_filters), schema,
                                             Unwrap(facet_attrs))
            IN IF parsed.kind = "Ok"
               THEN /\ search_builder' =
                           [search_builder EXCEPT !.facet_filters = Some(parsed.val)]
                    /\ UNCHANGED result
               ELSE /\ result' = parsed
                    /\ UNCHANGED search_builder
       ELSE UNCHANGED <<search_builder, result>>
    /\ UNCHANGED <<params, schema, facet_attrs, restricted_attributes,
                   final_attributes, it, warnings, ret>>

\* lines 89-94
FacetFilters ==
    /\ pc = "facet_filters"
    /\ IF IsSome(params.facet_filters) /\ IsSome(facet_attrs)
       THEN LET parsed == FacetFilterFromStr(Unwrap(params.facet_filters), schema,
                                             Unwrap(facet_attrs))
            IN IF parsed.kind = "Ok"
               THEN /\ search_builder' =
                           [search_builder EXCEPT !.facet_filters = Some(parsed.val)]
                    /\ pc' = "facets_distribution"
                    /\ UNCHANGED result
               ELSE /\ result' = parsed
                    /\ pc' = "done"
                    /\ UNCHANGED search_builder
       ELSE /\ pc' = "facets_distribution"
            /\ UNCHANGED <<search_builder, result>>
    /\ UNCHANGED <<params, schema, facet_attrs, restricted_attributes,
                   final_attributes, it, warnings, ret>>

\* lines 96-104
FacetsDistribution ==
    /\ pc = "facets_distribution"
    /\ IF IsSome(params.facets_distribution)
       THEN IF IsSome(facet_attrs)
            THEN LET field_ids == prepare_facet_list(Unwrap(params.facets_distribution),
                                                     schema, Unwrap(facet_attrs))
                 IN IF field_ids.kind = "Ok"
                    THEN /\ search_builder' =
                                [search_builder EXCEPT !.facets = Some(field_ids.val)]
                         /\ pc' = "crop"
                         /\ UNCHANGED result
                    ELSE /\ result' = field_ids
                         /\ pc' = "done"
                         /\ UNCHANGED search_builder
            ELSE /\ result' = NoFacetSet
                 /\ pc' = "done"
                 /\ UNCHANGED search_builder
       ELSE /\ pc' = "crop"
            /\ UNCHANGED <<search_builder, result>>
    /\ UNCHANGED <<params, schema, facet_attrs, restricted_attributes,
                   final_attributes, it, warnings, ret>>

\* attributes_to_crop.split(',')
CropTokens == Split(Unwrap(params.attributes_to_crop), ",")

\* lines 106-108
CropBegin ==
    /\ pc = "crop"
    /\ IF IsSome(params.attributes_to_crop)
       THEN /\ final_attributes' = EmptyMap
            /\ it' = 0
            /\ pc' = "crop_loop"
       ELSE /\ pc' = "highlight"
            /\ UNCHANGED <<final_attributes, it>>
    /\ UNCHANGED <<params, schema, facet_attrs, restricted_attributes,
                   search_builder, warnings, result, ret>>

\* lines 110-129: one iteration of the loop
CropToken ==
    /\ pc = "crop_loop"
    /\ it < Len(CropTokens)
    /\ it' = it + 1
    /\ LET attribute == CropTokens[it + 1]
           attr == CropAttr(attribute)
           length == CropLength(attribute, default_length)
       IN IF attr = Some(WILDCARD)
          THEN /\ final_attributes' =
                      InsertAll(final_attributes, restricted_attributes, length)
               /\ UNCHANGED warnings
          ELSE IF IsSome(attr)
               THEN IF Unwrap(attr) \in available_attributes
                    THEN /\ final_attributes' =
                                Insert(final_attributes, Unwrap(attr), length)
                         /\ UNCHANGED warnings
                    ELSE /\ warnings' =
                                Append(warnings, Warn("attributesToCrop", Unwrap(attr)))
                         /\ UNCHANGED final_attributes
               ELSE UNCHANGED <<final_attributes, warnings>>
    /\ UNCHANGED <<params, schema, facet_attrs, pc, restricted_attributes,
                   search_builder, result, ret>>

\* line 131
CropEnd ==
    /\ pc = "crop_loop"
    /\ it = Len(CropTokens)
    /\ search_builder' =
           [search_builder EXCEPT !.attributes_to_crop = Some(final_attributes)]
    /\ pc' = "highlight"
    /\ UNCHANGED <<params, schema, facet_attrs, restricted_attributes,
                   final_attributes, it, warnings, result, ret>>

\* HighlightLoop, had the code inserted every attribute it is given
RECURSIVE HighlightLoop_NoCheck(_, _, _, _, _)
HighlightLoop_NoCheck(tokens, available, restricted, set, warned) ==
    IF Len(tokens) = 0 THEN [set |-> set, warned |-> warned]
    ELSE LET attribute == Head(tokens)
         IN IF attribute = WILDCARD
            THEN HighlightLoop_NoCheck(Tail(tokens), available, restricted,
                                       set \cup restricted, warned)
            ELSE HighlightLoop_NoCheck(Tail(tokens), available, restricted,
                                       set \cup {attribute}, warned)

\* lines 136-148: the loop over attributes_to_highlight.split(','), from the
\* set and the warnings gathered so far
RECURSIVE HighlightLoop(_, _, _, _, _)
HighlightLoop(tokens, available, restricted, set, warned) ==
    IF Len(tokens) = 0 THEN [set |-> set, warned |-> warned]
    ELSE LET attribute == Head(tokens)
         IN IF attribute = WILDCARD
            THEN HighlightLoop(Tail(tokens), available, restricted,
                               set \cup restricted, warned)
            ELSE IF attribute \in available
                 THEN HighlightLoop(Tail(tokens), available, restricted,
                                    set \cup {attribute}, warned)
                 ELSE HighlightLoop(Tail(tokens), available, restricted, set,
                          Append(warned, Warn("attributesToHighlight", attribute)))

\* lines 134-151
Highlight ==
    /\ pc = "highlight"
    /\ pc' = "search"
    /\ IF IsSome(params.attributes_to_highlight)
       THEN LET done == HighlightLoop(
                            Split(Unwrap(params.attributes_to_highlight), ","),
                            available_attributes, restricted_attributes, {}, <<>>)
            IN /\ search_builder' =
                      [search_builder EXCEPT !.attributes_to_highlight = Some(done.set)]
               /\ warnings' = warnings \o done.warned
       ELSE UNCHANGED <<search_builder, warnings>>
    /\ UNCHANGED <<params, schema, facet_attrs, restricted_attributes,
                   final_attributes, it, result, ret>>

\* line 162: search_builder.search(&reader)?, which the engine may fail
Search ==
    /\ pc = "search"
    /\ pc' = "done"
    /\ search_builder' = [search_builder EXCEPT !.searched = TRUE]
    /\ \E outcome \in {Ok(<<>>), Err("Search", <<>>)} : result' = outcome
    /\ UNCHANGED <<params, schema, facet_attrs, restricted_attributes,
                   final_attributes, it, warnings, ret>>

\* a direct call of prepare_facet_list, on the facets, schema and facet_attrs
\* of the state
PrepareFacetListCall ==
    /\ pc = "call"
    /\ pc' = "ret"
    /\ ret' = prepare_facet_list(Unwrap(params.facets_distribution), schema,
                                 Unwrap(facet_attrs))
    /\ UNCHANGED <<params, schema, facet_attrs, restricted_attributes,
                   final_attributes, it, search_builder, warnings, result>>

Next ==
    \/ ResolveAttributes
    \/ FacetFilters
    \/ FacetsDistribution
    \/ CropBegin
    \/ CropToken
    \/ CropEnd
    \/ Highlight
    \/ Search

NextCall == PrepareFacetListCall

----------------------------------------------------------------------------
(* The requests, schemas and facet configurations the model starts from.   *)

FieldIdOf(name) == CASE name = T -> 1 [] name = B -> 2

\* a schema with the fields `names`, of which `displayed` are displayed
SchemaWith(names, displayed) ==
    [ids |-> [n \in names |-> FieldIdOf(n)], displayed |-> displayed]

\* the schemas of the handler's runs: the fields t and b, any of them displayed
HandlerSchemas == {SchemaWith({T, B}, d) : d \in SUBSET {T, B}}

\* the schemas of the runs on long attributesToCrop strings
CropSchemas == {SchemaWith({T, B}, {T, B}), SchemaWith({T, B}, {T})}

\* the schemas of the direct calls: any of the fields t and b
CallSchemas == {SchemaWith(names, names) : names \in SUBSET {T, B}}

UNKNOWN == <<"5">>

Requests(R, C, CL, H, FF, FD) ==
    [attributes_to_retrieve : R, attributes_to_crop : C, crop_length : CL,
     attributes_to_highlight : H, facet_filters : FF, facets_distribution : FD]

JsonElements ==
    {JsonString(T), JsonString(B), JsonString(UNKNOWN), JsonString(WILDCARD), JsonNumber}

RECURSIVE ArraysOfLen(_)
ArraysOfLen(n) ==
    IF n = 0 THEN {<<>>}
    ELSE {Append(a, e) : a \in ArraysOfLen(n - 1), e \in JsonElements}

\* the facetsDistribution texts whose arrays have at most n elements
FacetTexts(n) ==
    {MalformedText, TextOf(JsonObject)}
        \cup {TextOf(JsonArray(a)) : a \in UNION {ArraysOfLen(k) : k \in 0..n}}

NewBuilder ==
    [retrievable |-> {}, facet_filters |-> None, facets |-> None,
     attributes_to_crop |-> None, attributes_to_highlight |-> None,
     searched |-> FALSE]

\* the handler about to run on one of the requests P, schemas S and facet
\* configurations A
Start(P, S, A) ==
    /\ params \in P
    /\ schema \in S
    /\ facet_attrs \in A
    /\ pc = "attributes"
    /\ restricted_attributes = {}
    /\ final_attributes = EmptyMap
    /\ it = 0
    /\ search_builder = NewBuilder
    /\ warnings = <<>>
    /\ result = Pending
    /\ ret = Pending

RetrieveSamples == {None, Some(T), Some(UNKNOWN)}
WildcardSamples == {None, Some(WILDCARD)}

\* requests whose attributesToRetrieve is any string of at most n characters
RetrieveRequests(n) ==
    Requests(OptionOf(StringsUpTo(n)), WildcardSamples, {None}, WildcardSamples,
             {None}, {None})

\* requests whose attributesToHighlight is any string of at most n characters
HighlightRequests(n) ==
    Requests(RetrieveSamples, {None}, {None}, OptionOf(StringsUpTo(n)),
             {None}, {None})

\* requests whose attributesToCrop is any string of at most n characters
CropRequests(n) ==
    Requests(RetrieveSamples, OptionOf(StringsUpTo(n)), {None, Some(7)}, {None},
             {None}, {None})

\* requests with facet parameters
FacetRequests ==
    Requests({None}, WildcardSamples, {None}, WildcardSamples,
             OptionOf({T, B, UNKNOWN}), OptionOf(FacetTexts(MaxRequestFacets)))

FacetConfigs == {None, Some(<<>>), Some(<<1>>), Some(<<1, 2>>)}

Init ==
    \/ Start(RetrieveRequests(MaxListLen), HandlerSchemas, {None})
    \/ Start(HighlightRequests(MaxListLen), HandlerSchemas, {None})
    \/ Start(CropRequests(MaxListLen), HandlerSchemas, {None})
    \/ Start(FacetRequests, HandlerSchemas, FacetConfigs)

InitCrop ==
    \/ Start(CropRequests(MaxCropLen), CropSchemas, {None})
    \/ Start(FacetRequests, HandlerSchemas, FacetConfigs)

\* a direct call of prepare_facet_list about to be made
InitCall ==
    /\ params \in Requests({None}, {None}, {None}, {None}, {None},
                           {Some(t) : t \in FacetTexts(MaxFacets)})
    /\ schema \in CallSchemas
    /\ facet_attrs \in {Some(a) : a \in UNION {[1..k -> {1, 2, 3}] : k \in 0..MaxFacetAttrs}}
    /\ pc = "call"
    /\ restricted_attributes = {}
    /\ final_attributes = EmptyMap
    /\ it = 0
    /\ search_builder = NewBuilder
    /\ warnings = <<>>
    /\ result = Pending
    /\ ret = Pending

Spec == Init /\ [][Next]_vars

SpecCrop == InitCrop /\ [][Next]_vars

SpecCall == InitCall /\ [][NextCall]_vars

----------------------------------------------------------------------------
(* Claims about prepare_facet_list, checked on its direct calls (SpecCall). *)

CallText == Unwrap(params.facets_distribution)
CallIsArray == CallText.json /\ CallText.value.type = "Array"
CallVals == CallText.value.vals
CallAttrs == Unwrap(facet_attrs)
CallHasStar == \E i \in 1..Len(CallVals) : CallVals[i] = JsonString(WILDCARD)

\* the schema knows a field of that id / of that name
IdResolves(id) == \E n \in DOMAIN schema.ids : schema.ids[n] = id
NameOfId(id) == CHOOSE n \in DOMAIN schema.ids : schema.ids[n] = id
NameKnown(name) == name \in DOMAIN schema.ids

C1_Resolved == SelectSeq(CallAttrs, LAMBDA id : IdResolves(id))

C2_AllStrings == \A i \in 1..Len(CallVals) : CallVals[i].type = "String"
C2_KnownAreFacets ==
    \A i \in 1..Len(CallVals) :
        NameKnown(CallVals[i].s) => Contains(CallAttrs, schema.ids[CallVals[i].s])
C2_Known == SelectSeq(CallVals, LAMBDA v : NameKnown(v.s))

C2_WitnessUnknownOnly ==
    /\ pc = "ret" /\ CallIsArray
    /\ CallVals = <<JsonString(UNKNOWN), JsonString(UNKNOWN)>>
    /\ ret = Ok(<<>>)

\* an element that makes the call fail
C3_Bad(v) ==
    \/ v.type # "String"
    \/ NameKnown(v.s) /\ ~Contains(CallAttrs, schema.ids[v.s])
C3_SomeBad == \E i \in 1..Len(CallVals) : C3_Bad(CallVals[i])
C3_FirstBad ==
    CallVals[CHOOSE i \in 1..Len(CallVals) :
                 C3_Bad(CallVals[i]) /\ \A j \in 1..(i - 1) : ~C3_Bad(CallVals[j])]

----------------------------------------------------------------------------
(* Claims about the handler (Spec, SpecCrop).                              *)

Displayed == DisplayedName(schema)

\* the text of a token before its first colon, and the tokens of a list
BeforeColon(token) ==
    IF FirstIndex(token, ":") = 0 THEN token
    ELSE SubSeq(token, 1, FirstIndex(token, ":") - 1)
ListTokens(o) == IF IsSome(o) THEN Split(Unwrap(o), ",") ELSE <<>>

\* the string holds "*" as one of its comma-separated tokens
HasStarToken(s) ==
    \E i \in 1..Len(s) :
        /\ s[i] = "*"
        /\ i = 1 \/ s[i - 1] = ","
        /\ i = Len(s) \/ s[i + 1] = ","

Warned(name) == \E i \in 1..Len(warnings) : warnings[i].attr = name

Returned == pc = "done"
EngineInvoked == search_builder.searched
RetrieveDone == pc # "attributes"
CropDone == IsSome(search_builder.attributes_to_crop)
HighlightDone == IsSome(search_builder.attributes_to_highlight)

\* C4: on an index without facet-enabled attributes, facetFilters without
\* facetsDistribution is ignored (no filter attached, no error, the search
\* runs), and any facetsDistribution fails with NoFacetSet, whatever it holds.
C4_NoFacetConfiguration ==
    facet_attrs = None =>
        /\ (Returned /\ IsSome(params.facet_filters) /\ params.facets_distribution = None) =>
               /\ search_builder.facet_filters = None
               /\ EngineInvoked
               /\ result.kind \in {"Ok", "Search"}
        /\ IsSome(params.facets_distribution) =>
               /\ pc \in {"attributes", "facet_filters", "facets_distribution", "done"}
               /\ search_builder.facets = None
               /\ ~EngineInvoked
               /\ Returned => result = NoFacetSet

\* a request with facetFilters and a malformed facetsDistribution, on an index
\* without facets, has returned NoFacetSet
C4_Witness ==
    /\ facet_attrs = None /\ Returned
    /\ IsSome(params.facet_filters)
    /\ params.facets_distribution = Some(MalformedText)
    /\ result = NoFacetSet

\* a request with facetFilters only, on an index without facets, has searched
C4_WitnessIgnored ==
    /\ facet_attrs = None /\ Returned
    /\ IsSome(params.facet_filters) /\ params.facets_distribution = None
    /\ EngineInvoked /\ search_builder.facet_filters = None

\* C5: an attributesToRetrieve that holds the token "*" gives what omitting
\* the parameter gives: the restricted set is the displayed names, nothing is
\* registered as retrievable, and the list logs no warning.
C5_RetrieveWildcardIsDefault ==
    (IsSome(params.attributes_to_retrieve)
        /\ HasStarToken(Unwrap(params.attributes_to_retrieve))) =>
        /\ RetrieveDone =>
               /\ restricted_attributes = Displayed
               /\ search_builder.retrievable = {}
        /\ pc = "facet_filters" => warnings = <<>>

\* "*" listed before an unknown token, on a schema that displays something
C5_Witness ==
    /\ params.attributes_to_retrieve = Some(<<"*", ",", "5">>)
    /\ Returned /\ EngineInvoked
    /\ restricted_attributes = {T, B}
    /\ search_builder.retrievable = {}
    /\ warnings = <<>>

RetrieveNames == Range(ListTokens(params.attributes_to_retrieve)) \ {WILDCARD}
CropNames ==
    {BeforeColon(t) : t \in Range(ListTokens(params.attributes_to_crop))} \ {WILDCARD}
HighlightNames == Range(ListTokens(params.attributes_to_highlight)) \ {WILDCARD}
RetrieveHasStar == WILDCARD \in Range(ListTokens(params.attributes_to_retrieve))

NamesUnknown == \E n \in RetrieveNames \cup CropNames \cup HighlightNames : n \notin Displayed

\* what C6 says of every list but for the warning of attributesToRetrieve
\* (of attributesToCrop, the warning is stated of the non-empty names: C10 is
\* about the tokens without a name)
C6_Common ==
    /\ (NamesUnknown /\ Returned /\ params.facet_filters = None
            /\ params.facets_distribution = None) =>
           EngineInvoked /\ result.kind \in {"Ok", "Search"}
    /\ RetrieveDone =>
           \A n \in RetrieveNames \ Displayed :
               n \notin restricted_attributes /\ n \notin search_builder.retrievable
    /\ CropDone =>
           /\ \A n \in CropNames \ Displayed :
                  n \notin DOMAIN Unwrap(search_builder.attributes_to_crop)
           /\ \A n \in CropNames \ (Displayed \cup {EMPTY}) : Warned(n)
           /\ DOMAIN Unwrap(search_builder.attributes_to_crop) \subseteq Displayed
    /\ HighlightDone =>
           /\ \A n \in HighlightNames \ Displayed :
                  Warned(n) /\ n \notin Unwrap(search_builder.attributes_to_highlight)
           /\ Unwrap(search_builder.attributes_to_highlight) \subseteq Displayed

\* C6 as stated: a name that is not displayed, given in attributesToRetrieve,
\* attributesToCrop or attributesToHighlight, never ends the request, is
\* warned about and is absent from the set or mapping the list builds.  (Of
\* attributesToRetrieve only the non-empty names are counted here, so that an
\* empty token does not stand for an attribute name.)
C6_Original ==
    /\ C6_Common
    /\ RetrieveDone => \A n \in RetrieveNames \ (Displayed \cup {EMPTY}) : Warned(n)

\* C6 as amended: the same, but a name of an attributesToRetrieve list that
\* holds "*" is not warned about.
C6_UnknownNamesWarnedAndDropped ==
    /\ C6_Common
    /\ (RetrieveDone /\ ~RetrieveHasStar) => \A n \in RetrieveNames \ Displayed : Warned(n)
    /\ (pc = "facet_filters" /\ RetrieveHasStar) => warnings = <<>>

\* a request that lists an unknown name beside a displayed one to highlight
\* has searched, warned once and highlights the displayed one only
C6_Witness ==
    /\ params.attributes_to_highlight = Some(<<"t", ",", "5">>)
    /\ T \in Displayed
    /\ Returned /\ EngineInvoked
    /\ search_builder.attributes_to_highlight = Some({T})
    /\ Warned(UNKNOWN)

\* the tokens among the first k that write the length of attribute a
C7_Writers(a, k) ==
    {i \in 1..k :
        LET name == BeforeColon(CropTokens[i])
        IN \/ name = a /\ a \in Displayed /\ a # WILDCARD
           \/ name = WILDCARD /\ a \in restricted_attributes}
C7_Last(S) == CHOOSE i \in S : \A j \in S : j <= i

\* C7: the tokens of attributesToCrop are applied left to right, the last
\* writer winning: the length of an attribute is that of the last token that
\* names it (and it is displayed) or that is "*" while it is restricted.
C7_CropLastWriterWins ==
    /\ pc = "crop_loop" =>
           \A a \in Displayed \cup DOMAIN final_attributes :
               IF C7_Writers(a, it) = {}
               THEN a \notin DOMAIN final_attributes
               ELSE /\ a \in DOMAIN final_attributes
                    /\ final_attributes[a] =
                           CropLength(CropTokens[C7_Last(C7_Writers(a, it))], default_length)
    /\ (CropDone /\ restricted_attributes = {T, B} /\ params.crop_length = None) =>
           /\ params.attributes_to_crop = Some(<<"t", ":", "5", ",", "*">>) =>
                  Unwrap(search_builder.attributes_to_crop) =
                      [a \in {T, B} |-> DefaultCropLength]
           /\ params.attributes_to_crop = Some(<<"*", ",", "t", ":", "5">>) =>
                  Unwrap(search_builder.attributes_to_crop) =
                      [a \in {T, B} |-> IF a = T THEN 5 ELSE DefaultCropLength]

\* "t:5,*" has been applied to the restricted set {t, b}
C7_Witness ==
    /\ params.attributes_to_crop = Some(<<"t", ":", "5", ",", "*">>)
    /\ restricted_attributes = {T, B} /\ params.crop_length = None
    /\ CropDone
    /\ Unwrap(search_builder.attributes_to_crop) = [a \in {T, B} |-> DefaultCropLength]

\* the length of a token, read from all that follows its first colon
C9_LengthOfRest(token) ==
    LET i == FirstIndex(token, ":")
        rest == SubSeq(token, i + 1, Len(token))
    IN IF i > 0 /\ IsSome(ParseUsize(rest)) THEN Unwrap(ParseUsize(rest))
       ELSE default_length

\* the length of a token, read from what lies between its first colon and its
\* second colon or its end
C9_LengthOfSecond(token) ==
    LET i == FirstIndex(token, ":")
        rest == SubSeq(token, i + 1, Len(token))
        second == BeforeColon(rest)
    IN IF i > 0 /\ IsSome(ParseUsize(second)) THEN Unwrap(ParseUsize(second))
       ELSE default_length

\* the token the crop loop has just applied
C9_Applied == CropTokens[it]

\* the token just applied wrote `length`, and no error was raised
C9_AppliedWith(length) ==
    LET name == BeforeColon(C9_Applied)
    IN /\ result = Pending
       /\ (name # WILDCARD /\ name \in Displayed) =>
              name \in DOMAIN final_attributes /\ final_attributes[name] = length
       /\ name = WILDCARD =>
              \A a \in restricted_attributes :
                  a \in DOMAIN final_attributes /\ final_attributes[a] = length

\* C9 as stated: the name of a token is what precedes its first colon and its
\* length is all that follows it, parsed as an unsigned integer, or the
\* default length; so "title:50:7" gets the default length.
C9_Original ==
    (pc = "crop_loop" /\ it >= 1) => C9_AppliedWith(C9_LengthOfRest(C9_Applied))

\* C9 as amended: the length is what lies between the first colon and the
\* second colon or the end of the token, parsed as an unsigned integer, or
\* the default length; so "title:50:7" gets 50.
C9_CropTokenNameAndLength ==
    (pc = "crop_loop" /\ it >= 1) => C9_AppliedWith(C9_LengthOfSecond(C9_Applied))

\* "t:5:5" has been applied and gave t the length 5
C9_Witness ==
    /\ params.attributes_to_crop = Some(<<"t", ":", "5", ":", "5">>)
    /\ pc = "crop_loop" /\ it = 1
    /\ T \in DOMAIN final_attributes /\ final_attributes[T] = 5

\* "t:t" has been applied and gave t the default length
C9_WitnessDefault ==
    /\ params.attributes_to_crop = Some(<<"t", ":", "t">>)
    /\ params.crop_length = Some(7)
    /\ pc = "crop_loop" /\ it = 1
    /\ T \in DOMAIN final_attributes /\ final_attributes[T] = 7

\* C10: a token of attributesToCrop whose name is empty leaves the crop
\* mapping and the warning log as they were.
C10_EmptyNameTokenHasNoEffect ==
    [][(pc = "crop_loop" /\ it < Len(CropTokens)
            /\ BeforeColon(CropTokens[it + 1]) = EMPTY)
        => (final_attributes' = final_attributes /\ warnings' = warnings)]_vars

FilterFails ==
    /\ IsSome(params.facet_filters)
    /\ FacetFilterFromStr(Unwrap(params.facet_filters), schema,
                          IF IsSome(facet_attrs) THEN Unwrap(facet_attrs) ELSE <<>>).kind # "Ok"
DistributionResult ==
    IF IsSome(facet_attrs)
    THEN prepare_facet_list(Unwrap(params.facets_distribution), schema, Unwrap(facet_attrs))
    ELSE NoFacetSet
DistributionFails ==
    IsSome(params.facets_distribution) /\ DistributionResult.kind # "Ok"
AssemblerErrors == {"FacetFilter", "Json", "NoFacetSet", "AttributeNotSet", "UnexpectedToken"}

\* after a terminal error the engine is never invoked
C8_NoSearchAfterError ==
    /\ result.kind \in AssemblerErrors => Returned /\ ~EngineInvoked
    /\ (Returned /\ ~EngineInvoked) => result.kind \in AssemblerErrors

\* C8 as stated: the first terminal error is returned, facet filters before
\* facets distribution: facetFilters that fail to parse win over a
\* facetsDistribution that would fail, be it malformed, not facet-enabled or
\* without facet configuration; after an error the engine is never invoked.
C8_Original ==
    /\ C8_NoSearchAfterError
    /\ (Returned /\ FilterFails /\ DistributionFails) => result.kind = "FacetFilter"

\* C8 as amended: the same on an index with a facet configuration; without
\* one facetFilters is not parsed, and NoFacetSet is returned.
C8_FirstErrorInOrder ==
    /\ C8_NoSearchAfterError
    /\ (Returned /\ FilterFails /\ IsSome(facet_attrs)) =>
           result = Err("FacetFilter", Unwrap(params.facet_filters))
    /\ (Returned /\ DistributionFails /\ ~(FilterFails /\ IsSome(facet_attrs))) =>
           result = DistributionResult
    /\ (Returned /\ FilterFails /\ DistributionFails /\ facet_attrs = None) =>
           result = NoFacetSet

\* a request whose facetFilters and facetsDistribution both fail, on an index
\* with facets, has returned the error of facetFilters
C8_Witness ==
    /\ Returned /\ IsSome(facet_attrs)
    /\ FilterFails
    /\ params.facets_distribution = Some(MalformedText)
    /\ result.kind = "FacetFilter" /\ ~EngineInvoked

====
